---------------------------- MODULE Spec2Model ----------------------------
(***************************************************************************)
(* A model of the crypto crawler: the rate-limited retrying HttpClient     *)
(* (src/src/http_client.py), the MovingAverage window                      *)
(* (src/src/core/models.py), the price poller and the paged crawls of      *)
(* CryptoCrawlerService (src/src/service.py) and the providers they call   *)
(* (src/src/providers.py).                                                 *)
(*                                                                         *)
(* Time is a discrete clock `now` (one tick = one second).  A coroutine    *)
(* that awaits asyncio.sleep(d) records wake = now + d and resumes at some *)
(* instant with now >= wake.  Every stretch of code between two awaits is  *)
(* one action.  An optional value is a sequence: None is << >>, a present  *)
(* value x is <<x>>.                                                       *)
(***************************************************************************)
EXTENDS Integers, Sequences, FiniteSets

(***************************************************************************)
(* Bounds of the model.                                                    *)
(***************************************************************************)
MaxTime == 4          \* the clock stops ticking here
MaxRetries == 3       \* max_retries is drawn from -1..MaxRetries
MaxCalls == 3         \* get() calls issued by the direct callers, in total
MaxWindow == 3        \* window_size is drawn from 0..MaxWindow
MaxAdds == 4          \* add_value calls on a MovingAverage used on its own
MaxPrice == 2         \* prices are drawn from 1..MaxPrice
MaxThreshold == 2     \* max_consecutive_failures is drawn from 0..MaxThreshold
MaxCycles == 3        \* poll cycles over the life of a service
MaxStarts == 2        \* calls of start_price_poller on one service
MaxPages == 3         \* the argument `pages` is drawn from 0..MaxPages
MaxItems == 1         \* items (or table rows) in one page's body, at most
MaxCrawled == 2       \* the argument `pages` of the crawl that is checked for termination
MaxRows == 3          \* items in the body of the page whose items come in every shape
FairCycles == 2       \* poll cycles of the service run under fair scheduling
MaxFailures == 7      \* failed cycles in a row of the service whose upstream is down
MaxAttempts == 7      \* max_retries of that service is drawn from 1..MaxAttempts

None == << >>
Some(x) == <<x>>

Solo == {"a"}            \* one task calling get() again and again
Callers == {"a", "b"}    \* two tasks sharing one HttpClient
Tasks == Callers \cup {"poller", "crawler"}

VARIABLES
    now,                 \* datetime.now()
    \* ---- HttpClient fields
    max_retries,         \* self.max_retries
    requests_per_second, \* self.requests_per_second, a rational <<num, den>>
    min_interval,        \* self.min_interval
    last_request_time,   \* self.last_request_time (None or Some(instant))
    session,             \* self.session: "none", "open" or "closed"
    \* ---- one frame of HttpClient.get per task
    call,                \* call[t]: pc, attempt, wake, result of t's get()
    \* ---- observation of the HTTP traffic (history, not program state)
    stamps,              \* the instants assigned to last_request_time, in order
    trace,               \* trace[t]: what t's current get() did, in order
    ncalls,              \* get() calls issued by the direct callers
    \* ---- MovingAverage fields
    window_size,         \* self.window_size
    values,              \* self.values
    added,               \* every value passed to add_value, in order (history)
    \* ---- CryptoCrawlerService: configuration and price poller
    max_consecutive_failures, \* config.max_consecutive_failures
    poll_interval,       \* config.poll_interval
    running,             \* self.running
    consecutive_failures, \* self.consecutive_failures
    handler,             \* signal_handler is installed for SIGINT
    ppc,                 \* where start_price_poller stands
    pwake,               \* when its asyncio.sleep is over
    price,               \* btc_price.price of the cycle under way
    stored,              \* the prices store_price has taken, in order
    plog,                \* what the poller did, in order (history)
    starts,              \* calls of start_price_poller so far
    cancelled,           \* signal_handler has run since the last start (history)
    closes,              \* calls of http_client.close() so far (history)
    \* ---- CryptoCrawlerService: the paged crawls
    mode,                \* "json" (crawl_coinmarketcap_json) or "html"
    pages,               \* the argument `pages`
    page,                \* the loop variable `page`
    all_listings,        \* the accumulator all_listings
    cpc,                 \* where the crawl stands
    cwake,               \* when its asyncio.sleep is over
    crawl_result,        \* the list the crawl returned (None before)
    store_calls,         \* the batches passed to store_listings, in order
    store_results,       \* how each store_listings call ended: "ok", "error"
    fetched              \* per page tried: whether it came through, and its body

clientVars == <<max_retries, requests_per_second, min_interval>>
httpVars == <<last_request_time, session, call, stamps, trace>>
maVars == <<window_size, values, added>>
pollCfg == <<max_consecutive_failures, poll_interval>>
pollVars == <<running, consecutive_failures, handler, ppc, pwake, price, stored,
              plog, starts, cancelled, closes>>
crawlVars == <<mode, pages, page, all_listings, cpc, cwake, crawl_result,
               store_calls, store_results, fetched>>
\* everything a step of HttpClient.get leaves alone
aroundGet == <<now, clientVars, ncalls, maVars, pollCfg, pollVars, crawlVars>>
vars == <<now, clientVars, httpVars, ncalls, maVars, pollCfg, pollVars, crawlVars>>

(***************************************************************************)
(* HttpClient.__init__                                                     *)
(***************************************************************************)
\* requests_per_second values: -1, 0, 1 and 1/2 requests per second
RpsValues == {<<0 - 1, 1>>, <<0, 1>>, <<1, 1>>, <<1, 2>>}

\* 1.0 / requests_per_second if requests_per_second > 0 else 0
MinIntervalOf(rps) == IF rps[1] > 0 THEN rps[2] \div rps[1] ELSE 0

IdleCall == [pc |-> "idle", attempt |-> 0, wake |-> 0,
             kind |-> "none", detail |-> "none", body |-> None]

InitClient(retries, rps) ==
    /\ max_retries = retries
    /\ requests_per_second = rps
    /\ min_interval = MinIntervalOf(requests_per_second)
    /\ last_request_time = None
    /\ session = "none"
    /\ call = [t \in Tasks |-> IdleCall]
    /\ stamps = << >>
    /\ trace = [t \in Tasks |-> << >>]
    /\ ncalls = 0

(***************************************************************************)
(* MovingAverage (src/src/core/models.py).  Prices are integers; the       *)
(* quotient sum(values) / len(values) is kept as the fraction num / den.   *)
(***************************************************************************)
Prices == 1..MaxPrice

\* __post_init__: whatever was passed as values, the window starts empty
InitAverage(n) ==
    /\ window_size = n
    /\ values = << >>
    /\ added = << >>

\* (a slip: pop() for pop(0), the newest value evicted)
AddValuePopLast(vals, v) ==
    LET appended == Append(vals, v)
    IN  IF Len(appended) > window_size
        THEN SubSeq(appended, 1, Len(appended) - 1) ELSE appended

\* (a slip: the window allowed one value too many)
AddValueLate(vals, v) ==
    LET appended == Append(vals, v)
    IN  IF Len(appended) > window_size + 1 THEN Tail(appended) ELSE appended

\* (a slip: two values evicted from a window over its size)
AddValueEvictTwo(vals, v) ==
    LET appended == Append(vals, v)
    IN  IF Len(appended) > window_size
        THEN SubSeq(appended, 3, Len(appended)) ELSE appended

\* add_value: append, then pop(0) once if the window is over its size
AddValueTo(vals, v) ==
    LET appended == Append(vals, v)
    IN  IF Len(appended) > window_size THEN Tail(appended) ELSE appended

\* sum(self.values), left to right
RECURSIVE Sum(_)
Sum(vals) == IF vals = << >> THEN 0 ELSE vals[1] + Sum(Tail(vals))

\* is_ready
IsReady(vals) == Len(vals) >= window_size

\* (a slip: no average until the window is full)
GetAverageWhenReady(vals) ==
    IF vals = << >> \/ ~IsReady(vals) THEN None
    ELSE Some([num |-> Sum(vals), den |-> Len(vals)])

\* get_average
GetAverage(vals) ==
    IF vals = << >> THEN None
    ELSE Some([num |-> Sum(vals), den |-> Len(vals)])

\* self.moving_average.add_value(value)
AddValue(v) ==
    /\ values' = AddValueTo(values, v)
    /\ added' = Append(added, v)
    /\ UNCHANGED window_size

(***************************************************************************)
(* What the remote end can answer to one session.get(): a status with a    *)
(* body, or a network failure raised by aiohttp.                           *)
(***************************************************************************)
Statuses == {200, 404, 500}
Replies(bodies) ==
    [exc : {"none"}, status : {200}, body : bodies]
        \cup [exc : {"none"}, status : Statuses \ {200}, body : {None}]
        \cup [exc : {"ClientError", "TimeoutError"}, status : {0}, body : {None}]

\* What response.json() can raise on a body that is no JSON document:
\* aiohttp.ContentTypeError (a ClientResponseError) when the content type is
\* not JSON, json.JSONDecodeError (a ValueError) when the text does not parse.
JsonErrors == {"ContentTypeError", "JSONDecodeError"}

\* what can come back to a session.get() whose body is then read as JSON
JsonReplies(bodies) ==
    Replies(bodies) \cup [exc : JsonErrors, status : {200}, body : {None}]

(***************************************************************************)
(* HttpClient._rate_limit                                                  *)
(***************************************************************************)
Elapsed == now - last_request_time[1]

\* the condition under which _rate_limit suspends
MustWait ==
    /\ last_request_time # None
    /\ min_interval > 0
    /\ Elapsed < min_interval

\* (a slip: the time already elapsed taken for the time still to wait)
SleepTimeElapsed == Elapsed

\* (a slip: the whole interval slept, whatever time has passed already)
SleepTimeFull == min_interval

\* sleep_time = self.min_interval - elapsed
SleepTime == min_interval - Elapsed

\* self.last_request_time = datetime.now()
RecordRequestTime ==
    /\ last_request_time' = Some(now)
    /\ stamps' = Append(stamps, now)

(***************************************************************************)
(* HttpClient._get_session                                                 *)
(***************************************************************************)
GetSession == session' = IF session \in {"none", "closed"} THEN "open" ELSE session

(***************************************************************************)
(* HttpClient.get: the retry loop                                          *)
(***************************************************************************)
RECURSIVE Pow2(_)
Pow2(n) == IF n <= 0 THEN 1 ELSE 2 * Pow2(n - 1)

\* (a slip: 2 * attempt for 2 ** attempt)
RetryDelayDoubled(attempt) == 2 * attempt

\* delay = 2**attempt
RetryDelay(attempt) == Pow2(attempt)

\* (a slip: one attempt more than max_retries)
ShouldRetryOnceMore(attempt) == attempt < max_retries

\* attempt < self.max_retries - 1
ShouldRetry(attempt) == attempt < max_retries - 1

\* (a slip: every status >= 400 taken for a server error)
IsServerErrorFrom400(status) == status >= 400

\* response.status >= 500
IsServerError(status) == status >= 500

\* (a slip: every status from 200 on taken for a client error)
IsClientErrorFrom200(status) == status >= 200

\* response.status >= 400, tested after the server errors are dealt with
IsClientError(status) == status >= 400

\* (a slip: asyncio.TimeoutError left out of the except clause)
IsRetriedErrorNoTimeout(exc) == exc = "ClientError"

\* except (aiohttp.ClientError, asyncio.TimeoutError)
IsRetriedError(exc) == exc \in {"ClientError", "TimeoutError"}

\* except aiohttp.ClientResponseError, the first clause: it takes the
\* subclasses of ClientResponseError before the clause for ClientError does
IsResponseError(exc) == exc \in {"ClientResponseError", "ContentTypeError"}

\* a payload as a number: 0 for a body without a price, else the price
PayloadCode(body) == IF body = None THEN 0 ELSE body[1]

Raise(c, kind, detail) ==
    [c EXCEPT !.pc = "raised", !.kind = kind, !.detail = detail, !.wake = 0]

Ev(e, a) == [ev |-> e, arg |-> a]

\* (a slip: a budget of zero taken to allow one attempt)
HasAttemptsFromZero == max_retries >= 0

\* range(self.max_retries) is not empty: the loop body runs at least once
HasAttempts == max_retries > 0

\* The frame of task t once the rate limiter has let it through: the first
\* iteration of `for attempt in range(self.max_retries)`, or the raise after
\* the loop when the range is empty.  tr is what t's get() did so far.
EnterLoop(t, tr) ==
    IF HasAttempts
    THEN /\ call' = [call EXCEPT ![t] = [@ EXCEPT !.pc = "request", !.attempt = 0,
                                                   !.wake = 0]]
         /\ trace' = [trace EXCEPT ![t] = tr \o <<Ev("stamp", 0), Ev("send", 0)>>]
    ELSE /\ call' = [call EXCEPT ![t] = Raise(@, "ClientError", "Max retries exceeded")]
         /\ trace' = [trace EXCEPT ![t] = Append(tr, Ev("stamp", 0))]

\* get(): await self._rate_limit(), up to its first suspension (line 49), or,
\* when it does not suspend, on to the first session.get
GetCall(t) ==
    /\ call[t].pc = "idle"
    /\ IF MustWait
       THEN /\ call' = [call EXCEPT ![t] = [@ EXCEPT !.pc = "rate_limit",
                                                      !.wake = now + SleepTime]]
            /\ trace' = [trace EXCEPT ![t] = <<Ev("wait", SleepTime)>>]
            /\ UNCHANGED <<last_request_time, stamps, session>>
       ELSE /\ RecordRequestTime
            /\ GetSession
            /\ EnterLoop(t, << >>)

\* _rate_limit resumes from asyncio.sleep(sleep_time) and records the instant
RateLimitWake(t) ==
    /\ call[t].pc = "rate_limit"
    /\ now >= call[t].wake
    /\ RecordRequestTime
    /\ GetSession
    /\ EnterLoop(t, trace[t])
    /\ UNCHANGED aroundGet

\* The except clauses of the retry loop (lines 98-114) for an exception
\* raised by session.get or by response.json().
Except(c, exc) ==
    IF IsResponseError(exc)
    THEN Raise(c, exc, "raised again")
    ELSE IF IsRetriedError(exc)
         THEN IF ShouldRetry(c.attempt)
              THEN [c EXCEPT !.pc = "backoff", !.wake = now + RetryDelay(c.attempt)]
              ELSE Raise(c, exc, "Request failed after attempts")
         \* no except clause for it: the exception leaves get() as it came
         ELSE Raise(c, exc, "not caught")

\* One pass through the body of the retry loop, from the reply to
\* session.get to the next suspension, return or raise (lines 64-114).
\* Status 0 stands for no response: session.get itself raised.
AfterReply(c, r) ==
    IF r.status = 0
    THEN Except(c, r.exc)
    ELSE IF IsServerError(r.status)
         THEN IF ShouldRetry(c.attempt)
              THEN [c EXCEPT !.pc = "backoff", !.wake = now + RetryDelay(c.attempt)]
              \* raise aiohttp.ClientError(error_msg), caught at line 101 and
              \* raised again at line 114, this being the last attempt
              ELSE Raise(c, "ClientError", "Server error after attempts")
         ELSE IF IsClientError(r.status)
              THEN Raise(c, "ClientResponseError", "Client error")
              \* data = await response.json()
              ELSE IF r.exc = "none"
                   THEN [c EXCEPT !.pc = "returned", !.kind = "payload", !.body = r.body]
                   ELSE Except(c, r.exc)

Reply(t, r) ==
    /\ call[t].pc = "request"
    /\ call' = [call EXCEPT ![t] = AfterReply(@, r)]
    /\ trace' = [trace EXCEPT ![t] =
                    IF call'[t].pc = "backoff"
                    THEN @ \o <<Ev("reply", r.status), Ev("sleep", call'[t].wake - now)>>
                    ELSE IF call'[t].pc = "returned"
                    THEN @ \o <<Ev("reply", r.status), Ev("payload", PayloadCode(r.body))>>
                    ELSE IF r.exc \in JsonErrors
                    THEN @ \o <<Ev("reply", r.status), Ev("unparsed", 0)>>
                    ELSE Append(@, Ev("reply", r.status))]
    /\ UNCHANGED <<last_request_time, session, stamps, aroundGet>>

\* asyncio.sleep(delay) is over: `continue`, the next attempt's session.get
BackoffWake(t) ==
    /\ call[t].pc = "backoff"
    /\ now >= call[t].wake
    /\ call' = [call EXCEPT ![t] = [@ EXCEPT !.pc = "request", !.attempt = @ + 1,
                                              !.wake = 0]]
    /\ trace' = [trace EXCEPT ![t] = Append(@, Ev("send", call[t].attempt + 1))]
    /\ UNCHANGED <<last_request_time, session, stamps, aroundGet>>

GetDone(t) == call[t].pc \in {"returned", "raised"}

\* time passes
Tick ==
    /\ now < MaxTime
    /\ now' = now + 1
    /\ UNCHANGED <<clientVars, httpVars, ncalls, maVars, pollCfg, pollVars, crawlVars>>

\* no crawl has been asked for
InitCrawl ==
    /\ mode = "none"
    /\ pages = 0
    /\ page = 0
    /\ all_listings = << >>
    /\ cpc = "idle"
    /\ cwake = 0
    /\ crawl_result = None
    /\ store_calls = << >>
    /\ store_results = << >>
    /\ fetched = << >>

(***************************************************************************)
(* CryptoCrawlerService.__init__ and start_price_poller                    *)
(* (src/src/service.py), with CoinGeckoProvider.get_price                  *)
(* (src/src/providers.py).  The poller is the task "poller"; its position  *)
(* ppc is "idle" before the first start, "top" at the loop test, "fetch"   *)
(* in get_price, "store" in store_price, "poll_sleep" or "backoff_sleep"   *)
(* in asyncio.sleep, "closing" in http_client.close(), "returned", and     *)
(* "raised" were an exception to leave the method.                         *)
(***************************************************************************)
InitPoller(threshold, interval) ==
    /\ max_consecutive_failures = threshold
    /\ poll_interval = interval
    /\ running = FALSE
    /\ consecutive_failures = 0
    /\ handler = FALSE
    /\ ppc = "idle"
    /\ pwake = 0
    /\ price = None
    /\ stored = << >>
    /\ plog = << >>
    /\ starts = 0
    /\ cancelled = FALSE
    /\ closes = 0

\* the outcomes of the poll cycles so far, in order
IsOutcome(e) == e.ev \in {"ok", "fail"}
OutcomesOf(log) == SelectSeq(log, IsOutcome)
Outcomes == OutcomesOf(plog)

\* (a slip: a counter that has reached the limit cleared by the next start)
CounterAtStartCleared ==
    IF consecutive_failures >= max_consecutive_failures THEN 0 ELSE consecutive_failures

\* consecutive_failures is set in __init__ (line 40) and by the cycles only:
\* start_price_poller takes it as the last run left it
CounterAtStart == consecutive_failures

\* lines 43-57: self.running = True, the SIGINT handler installed
StartPoller ==
    /\ ppc \in {"idle", "returned"}
    /\ starts < MaxStarts
    /\ starts' = starts + 1
    /\ running' = TRUE
    /\ handler' = TRUE
    /\ ppc' = "top"
    /\ plog' = Append(plog, Ev("start", 0))
    /\ cancelled' = FALSE
    /\ consecutive_failures' = CounterAtStart
    /\ UNCHANGED <<pwake, price, stored, closes>>
    /\ UNCHANGED <<now, clientVars, httpVars, ncalls, maVars, pollCfg, crawlVars>>

\* signal_handler: SIGINT arrives, at any point of the run
Cancel ==
    /\ handler
    /\ running
    /\ running' = FALSE
    /\ cancelled' = TRUE
    /\ UNCHANGED <<consecutive_failures, handler, ppc, pwake, price, stored, plog,
                   starts, closes>>
    /\ UNCHANGED <<now, clientVars, httpVars, ncalls, maVars, pollCfg, crawlVars>>

\* (a slip: the flag not looked at)
KeepGoingAlways == TRUE

\* the test of `while self.running:`
KeepGoing == running

\* `while self.running:` and, in the loop, get_price("bitcoin") up to the
\* first suspension of HttpClient.get
LoopTopWithin(cycles) ==
    /\ ppc = "top"
    /\ IF KeepGoing
       THEN /\ Len(Outcomes) < cycles
            /\ GetCall("poller")
            /\ ppc' = "fetch"
            /\ plog' = Append(plog, Ev("get_price", 0))
       ELSE /\ ppc' = "closing"
            /\ plog' = plog
            /\ UNCHANGED httpVars
    /\ UNCHANGED <<running, consecutive_failures, handler, pwake, price, stored,
                   starts, cancelled, closes>>
    /\ UNCHANGED <<now, clientVars, ncalls, maVars, pollCfg, crawlVars>>

LoopTop == LoopTopWithin(MaxCycles)

\* (a slip: the limit tested with > for >=)
AtThresholdLate(failures) == failures > max_consecutive_failures

\* self.consecutive_failures >= self.config.max_consecutive_failures
AtThreshold(failures) == failures >= max_consecutive_failures

\* (a slip: the cap left out)
WaitTimeUncapped(failures) == Pow2(failures - 1)

\* wait_time = min(2 ** (self.consecutive_failures - 1), 30)
WaitTime(failures) ==
    IF Pow2(failures - 1) <= 30 THEN Pow2(failures - 1) ELSE 30

\* what can go wrong in a cycle: HttpClient.get raised, the payload has no
\* price (ValueError, providers.py:36), store_price raised, or the output
\* line could not be built or written (lines 81-87: the format of the price,
\* print to a stream that cannot encode the line)
Causes == {"fetch_error", "no_price", "store_error", "output_error"}

\* (a slip: a failure counted twice)
CountFailureTwice(failures) == failures + 2

\* self.consecutive_failures += 1
CountFailure(failures) == failures + 1

\* (a slip: only what HttpClient.get raises is caught)
CaughtFromGet(cause) == cause = "fetch_error"

\* `except Exception`: aiohttp.ClientError, asyncio.TimeoutError, ValueError
\* and whatever store_price raises are all exceptions of that class
Caught(cause) == cause \in Causes

\* the exception of a cycle: the except branch, lines 95-119, entered for
\* the given cause, or, were it not caught, the exception leaving
\* start_price_poller.  log is what the cycle did before the exception.
OnFailure(cause, log) ==
    /\ IF Caught(cause)
       THEN /\ consecutive_failures' = CountFailure(consecutive_failures)
            /\ IF AtThreshold(consecutive_failures')
               THEN /\ running' = FALSE
                    /\ ppc' = "closing"
                    /\ pwake' = 0
                    /\ plog' = log \o <<Ev(cause, 0), Ev("fail", 0), Ev("stop", 0)>>
               ELSE /\ running' = running
                    /\ ppc' = "backoff_sleep"
                    /\ pwake' = now + WaitTime(consecutive_failures')
                    /\ plog' = log \o <<Ev(cause, 0), Ev("fail", 0),
                                        Ev("backoff", WaitTime(consecutive_failures'))>>
       ELSE /\ ppc' = "raised"
            /\ plog' = Append(log, Ev(cause, 0))
            /\ UNCHANGED <<consecutive_failures, running, pwake>>
    /\ price' = None
    /\ UNCHANGED <<handler, starts, cancelled, closes>>

\* get_price after http_client.get: the payload's price or ValueError
\* (providers.py:32-38), then lines 63-73 up to the await of store_price
FetchDone ==
    /\ ppc = "fetch"
    /\ GetDone("poller")
    /\ call' = [call EXCEPT !["poller"] = IdleCall]
    /\ trace' = [trace EXCEPT !["poller"] = << >>]
    /\ IF call["poller"].pc = "returned" /\ call["poller"].body # None
       THEN /\ price' = call["poller"].body
            /\ ppc' = "store"
            /\ UNCHANGED <<running, consecutive_failures, handler, pwake, stored,
                           plog, starts, cancelled, closes, maVars>>
       ELSE /\ IF call["poller"].pc = "raised"
               THEN OnFailure("fetch_error", plog)
               ELSE OnFailure("no_price", plog)
            /\ UNCHANGED <<stored, maVars>>
    /\ UNCHANGED <<last_request_time, session, stamps>>
    /\ UNCHANGED <<now, clientVars, ncalls, pollCfg, crawlVars>>

\* (a slip: the counter left as it is on success)
ResetCounterNot == consecutive_failures

\* self.consecutive_failures = 0
ResetCounter == 0

\* (a slip: the average shown whenever there is one)
ShowAverageAlways(window) == window # << >>

\* `if self.moving_average.is_ready():` guards the SMA part of the line
ShowAverage(window) == IsReady(window)

\* output = str(btc_price), with the average appended when it is shown;
\* print(output)
OutputLine(p, window) ==
    <<Ev("price", p)>> \o (IF ShowAverage(window) THEN <<Ev("sma", Sum(window))>> ELSE << >>)

\* store_price is over: on success lines 77-93 (add_value, the output, the
\* counter reset, the sleep of poll_interval), on an exception the except
\* branch.  shown: lines 81-87 went through without an exception.
StoreDone(ok, shown) ==
    /\ ppc = "store"
    /\ IF ok
       THEN /\ stored' = Append(stored, price[1])
            /\ AddValue(price[1])
            /\ IF shown
               THEN /\ consecutive_failures' = ResetCounter
                    /\ ppc' = "poll_sleep"
                    /\ pwake' = now + poll_interval
                    /\ plog' = plog \o <<Ev("stored", price[1])>>
                                    \o OutputLine(price[1], values')
                                    \o <<Ev("ok", 0), Ev("sleep", poll_interval)>>
                    /\ price' = None
                    /\ UNCHANGED <<running, handler, starts, cancelled, closes>>
               ELSE OnFailure("output_error", Append(plog, Ev("stored", price[1])))
       ELSE /\ shown
            /\ OnFailure("store_error", plog)
            /\ UNCHANGED <<stored, maVars>>
    /\ UNCHANGED <<now, clientVars, httpVars, ncalls, pollCfg, crawlVars>>

\* asyncio.sleep is over: back to the loop test
PollerWake ==
    /\ ppc \in {"poll_sleep", "backoff_sleep"}
    /\ now >= pwake
    /\ ppc' = "top"
    /\ pwake' = 0
    /\ UNCHANGED <<running, consecutive_failures, handler, price, stored, plog,
                   starts, cancelled, closes>>
    /\ UNCHANGED <<now, clientVars, httpVars, ncalls, maVars, pollCfg, crawlVars>>

\* (a slip: the session left as it is)
CloseSessionNot(s) == s

\* HttpClient.close: an open session is closed
CloseSession(s) == IF s = "open" THEN "closed" ELSE s

\* await self.http_client.close() (http_client.py:118-122), then the return
CloseDone ==
    /\ ppc = "closing"
    /\ session' = CloseSession(session)
    /\ closes' = closes + 1
    /\ ppc' = "returned"
    /\ UNCHANGED <<running, consecutive_failures, handler, pwake, price, stored,
                   plog, starts, cancelled>>
    /\ UNCHANGED <<last_request_time, call, stamps, trace>>
    /\ UNCHANGED <<now, clientVars, ncalls, maVars, pollCfg, crawlVars>>

\* the payloads get_price can meet: a body with a price, or without one
PriceBodies == {None} \cup {Some(p) : p \in Prices}

\* the payloads the poller is fed: no price, the lowest price, the highest
PollerBodies == {None, Some(1), Some(MaxPrice)}

\* a service whose client makes up to two attempts, one request every two
\* ticks, and whose window holds one price or two
InitService ==
    /\ now = 0
    /\ InitClient(2, <<1, 2>>)
    /\ \E n \in 1..2 : InitAverage(n)
    /\ \E threshold \in 0..MaxThreshold : InitPoller(threshold, 1)
    /\ InitCrawl

Next ==
    \/ StartPoller
    \/ Cancel
    \/ LoopTop
    \/ RateLimitWake("poller")
    \/ \E r \in JsonReplies(PollerBodies) : Reply("poller", r)
    \/ BackoffWake("poller")
    \/ FetchDone
    \/ \E ok, shown \in BOOLEAN : StoreDone(ok, shown)
    \/ PollerWake
    \/ CloseDone
    \/ Tick

Spec == InitService /\ [][Next]_vars

\* how many cycles in a row failed at the end of the outcomes o
RECURSIVE TrailingFails(_)
TrailingFails(o) ==
    IF o = << >> \/ o[Len(o)].ev # "fail" THEN 0
    ELSE 1 + TrailingFails(SubSeq(o, 1, Len(o) - 1))

\* C1: on a fresh service with max_consecutive_failures = T >= 1, once T
\* cycles in a row have failed the loop has stopped on the T-th failure:
\* running is False, the failure and the stop report are the last things the
\* poller did (no backoff sleep, no further get_price), and the poller is on
\* its way out.
ThresholdStop ==
    (/\ starts = 1
     /\ max_consecutive_failures >= 1
     /\ TrailingFails(Outcomes) >= max_consecutive_failures) =>
        /\ TrailingFails(Outcomes) = max_consecutive_failures
        /\ running = FALSE
        /\ ppc \in {"closing", "returned"}
        /\ call["poller"].pc = "idle"
        /\ SubSeq(plog, Len(plog) - 1, Len(plog)) = <<Ev("fail", 0), Ev("stop", 0)>>

ThresholdStopWitness ==
    /\ starts = 1
    /\ max_consecutive_failures = MaxThreshold
    /\ Len(Outcomes) > MaxThreshold
    /\ TrailingFails(Outcomes) = MaxThreshold
    /\ ppc = "returned"

\* C2: the failure counter is the number of cycles that failed since the
\* last successful one (a success sets it to 0), and the poller stops
\* because of failures only when the last max_consecutive_failures cycles all
\* failed, however many failed before.
CounterReset ==
    /\ consecutive_failures = TrailingFails(Outcomes)
    /\ \A i \in 1..Len(plog) :
           plog[i].ev = "stop" =>
               TrailingFails(OutcomesOf(SubSeq(plog, 1, i))) >= max_consecutive_failures

\* two failures in all, not in a row: the poller goes on
CounterResetWitness ==
    /\ max_consecutive_failures = 2
    /\ Len(Outcomes) = 3
    /\ Outcomes[1].ev = "fail"
    /\ Outcomes[2].ev = "ok"
    /\ Outcomes[3].ev = "fail"
    /\ running
    /\ ppc = "backoff_sleep"

HasEvent(log, e) == \E i \in 1..Len(log) : log[i].ev = e
LastEvent(log) == log[Len(log)].ev

\* C12: start_price_poller returns only through http_client.close(): while a
\* run is under way close() has been called once per earlier run, and when
\* the run has returned, by the flag or by the failure limit, close() has
\* been called for it too, the session is not open and running is False.
ReleaseOnTermination ==
    /\ ppc \in {"top", "fetch", "store", "poll_sleep", "backoff_sleep", "closing"}
          => closes = starts - 1
    /\ ppc = "closing" => ~running
    /\ ppc = "returned" =>
          /\ closes = starts
          /\ session # "open"
          /\ ~running
          /\ cancelled \/ LastEvent(plog) = "stop"

\* a first run stopped by the failure limit, a second one by the signal,
\* and the session closed after each
ReleaseOnTerminationWitness ==
    /\ ppc = "returned"
    /\ starts = 2
    /\ HasEvent(plog, "stop")
    /\ cancelled
    /\ LastEvent(plog) # "stop"
    /\ LastEvent(plog) # "start"
    /\ session = "closed"
    /\ closes = 2

IsCause(e) == e.ev \in Causes

\* the outcomes among the first i events of the poller's log
OutcomesUpTo(i) == OutcomesOf(SubSeq(plog, 1, i))

\* C17: whatever went wrong in a cycle (get() raised, the payload had no
\* price, store_price raised), the cycle is a failure that adds exactly one
\* to the counter, is followed by the stop or by the backoff sleep and never
\* by the counter reset and the poll-interval sleep, and stops the poller
\* exactly when the failures in a row, of whatever cause, reach the limit.
AnyFailureCounts ==
    /\ consecutive_failures = TrailingFails(Outcomes)
    /\ \A i \in 1..Len(plog) :
          /\ IsCause(plog[i]) =>
                /\ i + 2 <= Len(plog)
                /\ plog[i + 1].ev = "fail"
                /\ plog[i + 2].ev \in {"stop", "backoff"}
          /\ plog[i].ev = "fail" =>
                /\ i > 1
                /\ IsCause(plog[i - 1])
                /\ plog[i + 1].ev = "stop"
                      <=> TrailingFails(OutcomesUpTo(i)) >= max_consecutive_failures

\* the poller stopped at a limit of two by a payload without a price
\* followed by a store_price error, after a cycle that went well
AnyFailureCountsWitness ==
    /\ max_consecutive_failures = 2
    /\ Len(Outcomes) = 3
    /\ Outcomes[1].ev = "ok"
    /\ \E i \in 1..Len(plog) :
          /\ plog[i].ev = "no_price"
          /\ i + 6 = Len(plog)
          /\ plog[i + 4].ev = "store_error"
          /\ plog[i + 6].ev = "stop"

\* C18: no exception of a cycle leaves start_price_poller; the loop ends
\* before the flag was lowered only by the stop at the failure limit, with
\* the counter at or over the limit, and from the stop the method goes on to
\* close() and returns.
CleanStop ==
    /\ ppc # "raised"
    /\ (ppc \in {"closing", "returned"} /\ ~cancelled) =>
          /\ LastEvent(plog) = "stop"
          /\ consecutive_failures >= max_consecutive_failures
    /\ (plog # << >> /\ LastEvent(plog) = "stop") => ppc \in {"closing", "returned"}

\* returned after a store_price error at the limit, no signal having come
CleanStopWitness ==
    /\ ppc = "returned"
    /\ ~cancelled
    /\ max_consecutive_failures = MaxThreshold
    /\ LastEvent(plog) = "stop"
    /\ HasEvent(plog, "store_error")
    /\ HasEvent(plog, "fetch_error")

IsStored(e) == e.ev = "stored"
IsOk(e) == e.ev = "ok"

\* the prices store_price took among the first i events of the poller's log
StoredUpTo(i) == SelectSeq(SubSeq(plog, 1, i), IsStored)

\* the index in the log of the start of the run event i belongs to
StartBefore(i) ==
    CHOOSE j \in 1..i :
        /\ plog[j].ev = "start"
        /\ \A k \in (j + 1)..i : plog[k].ev # "start"

\* the cycles of its run that went through, up to event i
OkInRunUpTo(i) == SelectSeq(SubSeq(plog, StartBefore(i), i), IsOk)

\* the sum of the last n of the prices in the events s
RECURSIVE SumLast(_, _)
SumLast(s, n) ==
    IF n <= 0 \/ s = << >> THEN 0
    ELSE s[Len(s)].arg + SumLast(SubSeq(s, 1, Len(s) - 1), n - 1)

StoredInRun ==
    IF starts = 0 THEN << >>
    ELSE SelectSeq(SubSeq(plog, StartBefore(Len(plog)), Len(plog)), IsStored)

\* the prices of the last n of the events s, oldest first
LastPrices(s, n) ==
    LET k == IF n < Len(s) THEN (IF n < 0 THEN 0 ELSE n) ELSE Len(s)
    IN  [i \in 1..k |-> s[Len(s) - k + i].arg]

\* C26: in a poller run the window holds the last min(s, window_size) prices
\* store_price took in this run, in order (s their number); a price is added
\* to the window only once store_price took it; and a cycle that fails
\* leaves the window as it was: no failed cycle has stored and added a price.
WindowTracksStoredPrices ==
    /\ values = LastPrices(StoredInRun, window_size)
    /\ added = stored
    /\ \A i \in 1..Len(plog) : plog[i].ev = "fail" => plog[i - 2].ev # "stored"

\* what the run under way (or the last one) did, its start included
RunLog == SubSeq(plog, StartBefore(Len(plog)), Len(plog))

\* C27: with max_consecutive_failures = T >= 1, all through the first run
\* 0 <= consecutive_failures <= T, and consecutive_failures < T while a fetch
\* is under way.  No start resets the counter: a second run that follows a
\* stop by the failure limit begins with consecutive_failures = T, and if its
\* first cycle fails the run stops there, on that one failure.
FailureCounterCarried ==
    LET T == max_consecutive_failures IN
    /\ (T >= 1 /\ starts = 1) =>
          /\ 0 <= consecutive_failures
          /\ consecutive_failures <= T
          /\ ppc \in {"fetch", "store"} => consecutive_failures < T
    /\ (T >= 1 /\ starts = 2 /\ plog[StartBefore(Len(plog)) - 1].ev = "stop") =>
          LET o == OutcomesOf(RunLog) IN
          /\ o = << >> => consecutive_failures = T
          /\ (o # << >> /\ o[1].ev = "fail") =>
                /\ Len(o) = 1
                /\ consecutive_failures = T + 1
                /\ ~running
                /\ LastEvent(plog) = "stop"
                /\ ppc \in {"closing", "returned"}

\* limit two: the first run stopped on two failures, the second on one
FailureCounterCarriedWitness ==
    /\ max_consecutive_failures = 2
    /\ starts = 2
    /\ ppc = "returned"
    /\ ~cancelled
    /\ consecutive_failures = 3
    /\ Len(OutcomesOf(RunLog)) = 1
    /\ Len(Outcomes) = 3

(***************************************************************************)
(* The poller under fair scheduling: the event loop runs the poller when   *)
(* it is ready, the clock advances, session.get ends with a response or    *)
(* with an exception (the session has a total timeout) and store_price     *)
(* ends.  The clock runs past MaxTime for as long as the poller sleeps.    *)
(***************************************************************************)
PollerSleeps ==
    \/ ppc \in {"poll_sleep", "backoff_sleep"} /\ pwake > now
    \/ call["poller"].pc \in {"rate_limit", "backoff"} /\ call["poller"].wake > now

\* time passes while the poller is suspended in asyncio.sleep
Elapse ==
    /\ now >= MaxTime
    /\ PollerSleeps
    /\ now' = now + 1
    /\ UNCHANGED <<clientVars, httpVars, ncalls, maVars, pollCfg, pollVars, crawlVars>>

\* the steps of the task that runs start_price_poller
PollerStep ==
    \/ LoopTopWithin(FairCycles)
    \/ RateLimitWake("poller")
    \/ \E r \in Replies({None, Some(1)}) : Reply("poller", r)
    \/ BackoffWake("poller")
    \/ FetchDone
    \/ \E ok, shown \in BOOLEAN : StoreDone(ok, shown)
    \/ PollerWake
    \/ CloseDone

\* start_price_poller is called once
FirstStart == starts = 0 /\ StartPoller

NextFair ==
    \/ FirstStart
    \/ Cancel
    \/ PollerStep
    \/ Tick
    \/ Elapse

\* a service whose client retries once and whose window holds one price
InitFair ==
    /\ now = 0
    /\ InitClient(2, <<1, 2>>)
    /\ InitAverage(1)
    /\ \E threshold \in 1..MaxThreshold : InitPoller(threshold, 1)
    /\ InitCrawl

FairSpec ==
    /\ InitFair
    /\ [][NextFair]_vars
    /\ WF_vars(PollerStep)
    /\ WF_vars(Tick \/ Elapse)

IsGetPrice(e) == e.ev = "get_price"
GetPrices == SelectSeq(plog, IsGetPrice)

\* the step in which signal_handler runs
CancelArrives == cancelled' /\ ~cancelled

\* a step of a run whose flag is down
StepWithFlagDown ==
    /\ ~running
    /\ ppc \notin {"idle", "returned"}

\* C11: the signal handler only lowers the flag: the cycle under way (its
\* get(), its retries, its store, its sleep) is left as it is and goes on;
\* with the flag down no get_price is started any more and the loop test
\* leads out of the loop; every get_price of a run that has returned had its
\* outcome; and a run whose flag was lowered does return.
CooperativeCancel ==
    /\ [][CancelArrives =>
             /\ ~running'
             /\ UNCHANGED <<ppc, pwake, price, call, trace, consecutive_failures,
                            stored, values, plog, session>>]_vars
    /\ [][StepWithFlagDown =>
             /\ ~running'
             /\ Len(SelectSeq(plog', IsGetPrice)) = Len(GetPrices)
             /\ (ppc = "top" /\ ppc' # ppc) => ppc' = "closing"]_vars
    /\ [](ppc = "returned" => Len(GetPrices) = Len(Outcomes))
    /\ ((cancelled /\ ppc # "returned") ~> (ppc = "returned"))

\* the signal arrived while get() was between two attempts
CooperativeCancelWitness ==
    /\ cancelled
    /\ ~running
    /\ ppc = "fetch"
    /\ call["poller"].pc = "backoff"

(***************************************************************************)
(* A service whose upstream is down: every request is answered with 500,   *)
(* so every get() uses up its retries and every poll cycle fails.  The     *)
(* clock runs straight to the end of each sleep.                           *)
(***************************************************************************)
InitDown ==
    /\ now = 0
    /\ \E retries \in 1..MaxAttempts : InitClient(retries, <<1, 2>>)
    /\ InitAverage(1)
    /\ \E threshold \in 1..(MaxFailures + 1) : InitPoller(threshold, 1)
    /\ InitCrawl

\* when the sleep the poller is in is over
PollerWakeTime ==
    IF ppc \in {"poll_sleep", "backoff_sleep"} THEN pwake ELSE call["poller"].wake

\* time passes until the poller's asyncio.sleep is over
SleepThrough ==
    /\ PollerSleeps
    /\ now' = PollerWakeTime
    /\ UNCHANGED <<clientVars, httpVars, ncalls, maVars, pollCfg, pollVars, crawlVars>>

ServerDown == [exc |-> "none", status |-> 500, body |-> None]

NextDown ==
    \/ FirstStart
    \/ LoopTopWithin(MaxFailures + 1)
    \/ RateLimitWake("poller")
    \/ Reply("poller", ServerDown)
    \/ BackoffWake("poller")
    \/ FetchDone
    \/ PollerWake
    \/ CloseDone
    \/ SleepThrough

SpecDown == InitDown /\ [][NextDown]_vars

\* 1, 2, 4, 8, 16, then 30 from the sixth failure in a row on
ExpectedWait(c) == IF c >= 6 THEN 30 ELSE <<1, 2, 4, 8, 16>>[c]

\* C16: a failure that leaves the counter at c below the limit puts the
\* poller to sleep until now + ExpectedWait(c), and the poller does nothing
\* else before that instant; the sleep between two attempts of a get() is
\* 2^attempt, whatever its size.
PollerBackoff ==
    /\ [][(/\ consecutive_failures' > consecutive_failures
            /\ consecutive_failures' < max_consecutive_failures) =>
               /\ ppc' = "backoff_sleep"
               /\ pwake' = now + ExpectedWait(consecutive_failures')]_vars
    /\ [][(ppc = "backoff_sleep" /\ ppc' # ppc) =>
               /\ now >= pwake
               /\ ppc' = "top"]_vars
    /\ [][(call["poller"].pc = "request" /\ call'["poller"].pc = "backoff") =>
               call'["poller"].wake = now + Pow2(call["poller"].attempt)]_vars

\* the seventh failure in a row: 30 and not 64, in a run whose get() calls
\* slept 32 before their last attempt
PollerBackoffWitness ==
    /\ ppc = "backoff_sleep"
    /\ consecutive_failures = 7
    /\ pwake = now + 30
    /\ max_retries = 7

(***************************************************************************)
(* CoinMarketCapProvider (src/src/providers.py): what a page's body holds  *)
(* and what get_listings and get_listings_html make of it.  A body is a    *)
(* sequence of item shapes; upstream numbers the items of page p from      *)
(* start = (p - 1) * limit + 1 on.                                         *)
(***************************************************************************)
Shapes == {"full", "no_price"}

ListingBodies ==
    UNION {[1..n -> Shapes] : n \in 0..MaxItems}

\* the `limit` of a request: as many items as a body holds at most
PerPage == MaxItems

\* start = (page - 1) * limit + 1
StartOf(p) == (p - 1) * PerPage + 1

\* the i-th item (or table row) of page p
Item(shape, rank) ==
    [rank |-> IF shape = "no_rank" THEN None ELSE Some(rank),
     name |-> IF shape = "no_name" THEN None ELSE Some("coin"),
     symbol |-> IF shape = "no_symbol" THEN None ELSE Some("SYM"),
     price |-> IF shape = "no_price" THEN None ELSE Some(1),
     change_24h |-> IF shape = "full" THEN Some(3) ELSE None,
     market_cap |-> IF shape = "full" THEN Some(9) ELSE None]

ItemsOf(p, body) == [i \in 1..Len(body) |-> Item(body[i], StartOf(p) + i - 1)]

\* all(x is not None for x in [rank, name, symbol, price])
IsComplete(item) ==
    /\ item.rank # None
    /\ item.name # None
    /\ item.symbol # None
    /\ item.price # None

\* change_24h or 0.0
OrZero(field) == IF field = None THEN 0 ELSE field[1]

\* the dictionary appended for a complete item (providers.py:90-99)
Record(item) ==
    [rank |-> item.rank[1], name |-> item.name[1], symbol |-> item.symbol[1],
     price |-> item.price[1],
     change_24h |-> OrZero(item.change_24h), market_cap |-> OrZero(item.market_cap)]

\* (a slip: the items after the first incomplete one lost with it)
RECURSIVE ParseListingsUntilBad(_)
ParseListingsUntilBad(items) ==
    IF items = << >> \/ ~IsComplete(items[1]) THEN << >>
    ELSE <<Record(items[1])>> \o ParseListingsUntilBad(Tail(items))

\* get_listings after http_client.get: the complete items, in order
ParseListings(items) ==
    LET kept == SelectSeq(items, IsComplete)
    IN  [i \in 1..Len(kept) |-> Record(kept[i])]

\* the dictionary appended for a table row (providers.py:149-160)
HtmlRecord(row) ==
    [rank |-> row.rank[1], name |-> row.name[1], symbol |-> row.symbol[1],
     price |-> row.price[1],
     change_24h |-> OrZero(row.change_24h), market_cap |-> row.price[1] * 1000000]

\* get_listings_html after session.get: the rows that have every element
ParseHtml(rows) ==
    LET kept == SelectSeq(rows, IsComplete)
    IN  [i \in 1..Len(kept) |-> HtmlRecord(kept[i])]

ListingsOf(m, p, body) ==
    IF m = "json" THEN ParseListings(ItemsOf(p, body)) ELSE ParseHtml(ItemsOf(p, body))

(***************************************************************************)
(* crawl_coinmarketcap_json and crawl_coinmarketcap_html                   *)
(* (src/src/service.py).  The crawl is the task "crawler"; its position    *)
(* cpc is "idle", "loop" at the head of the for loop, "fetch" in           *)
(* get_listings (json), "html_request" in session.get (html), "page_sleep" *)
(* in asyncio.sleep, "store" in store_listings, "returned" or "raised".    *)
(***************************************************************************)
\* config.json_api_delay (0.2 s) and config.html_scraping_delay (0.5 s), in
\* whole ticks
PageDelay(m) == IF m = "json" THEN 0 ELSE 1

\* (a slip: the page's listings assigned, not appended)
ExtendReplacing(all, listings) == listings

\* all_listings.extend(listings)
Extend(all, listings) == all \o listings

\* the crawl method is called: all_listings = [], the loop is entered
StartCrawl(m, n) ==
    /\ cpc = "idle"
    /\ mode' = m
    /\ pages' = n
    /\ page' = 1
    /\ all_listings' = << >>
    /\ cpc' = "loop"
    /\ UNCHANGED <<cwake, crawl_result, store_calls, store_results, fetched>>
    /\ UNCHANGED <<now, clientVars, httpVars, ncalls, maVars, pollCfg, pollVars>>

\* for page in range(1, pages + 1): the next page's request, up to its first
\* suspension, or, the range done, the call of store_listings
CrawlLoop ==
    /\ cpc = "loop"
    /\ IF page <= pages
       THEN IF mode = "json"
            THEN /\ GetCall("crawler")
                 /\ cpc' = "fetch"
            ELSE /\ GetSession
                 /\ cpc' = "html_request"
                 /\ UNCHANGED <<last_request_time, call, stamps, trace>>
       ELSE /\ cpc' = "store"
            /\ UNCHANGED httpVars
    /\ store_calls' = IF page <= pages THEN store_calls
                      ELSE Append(store_calls, all_listings)
    /\ UNCHANGED <<mode, pages, page, all_listings, cwake, crawl_result,
                   store_results, fetched>>
    /\ UNCHANGED <<now, clientVars, ncalls, maVars, pollCfg, pollVars>>

\* the page came through: extend, then asyncio.sleep of the page delay
PageOk(body) ==
    /\ all_listings' = Extend(all_listings, ListingsOf(mode, page, body))
    /\ fetched' = Append(fetched, [page |-> page, ok |-> TRUE, body |-> body])
    /\ cpc' = "page_sleep"
    /\ cwake' = now + PageDelay(mode)
    /\ page' = page

\* (a slip: the page that failed asked for again)
AfterFailedPageAgain(p) == p

\* the except branch: the error is logged and the loop goes on
AfterFailedPage(p) == p + 1

PageFailed ==
    /\ fetched' = Append(fetched, [page |-> page, ok |-> FALSE, body |-> None])
    /\ page' = AfterFailedPage(page)
    /\ cpc' = "loop"
    /\ UNCHANGED <<all_listings, cwake>>

\* json: get_listings after http_client.get returned or raised
CrawlFetchDone ==
    /\ cpc = "fetch"
    /\ GetDone("crawler")
    /\ call' = [call EXCEPT !["crawler"] = IdleCall]
    /\ trace' = [trace EXCEPT !["crawler"] = << >>]
    /\ IF call["crawler"].pc = "returned"
       THEN PageOk(call["crawler"].body)
       ELSE PageFailed
    /\ UNCHANGED <<mode, pages, crawl_result, store_calls, store_results>>
    /\ UNCHANGED <<last_request_time, session, stamps>>
    /\ UNCHANGED <<now, clientVars, ncalls, maVars, pollCfg, pollVars>>

\* html: session.get and response.text() are over (providers.py:111-113);
\* whatever the status, the document is parsed; an exception fails the page
HtmlReply(r) ==
    /\ cpc = "html_request"
    /\ IF r.exc = "none"
       THEN PageOk(r.body)
       ELSE PageFailed
    /\ UNCHANGED <<mode, pages, crawl_result, store_calls, store_results>>
    /\ UNCHANGED <<now, clientVars, httpVars, ncalls, maVars, pollCfg, pollVars>>

\* asyncio.sleep is over: the next page
CrawlWake ==
    /\ cpc = "page_sleep"
    /\ now >= cwake
    /\ page' = page + 1
    /\ cpc' = "loop"
    /\ cwake' = 0
    /\ UNCHANGED <<mode, pages, all_listings, crawl_result, store_calls,
                   store_results, fetched>>
    /\ UNCHANGED <<now, clientVars, httpVars, ncalls, maVars, pollCfg, pollVars>>

\* (a slip: the exception of store_listings caught and the list returned)
AfterStoreErrorReturn == "returned"

\* `await self.storage.store_listings(all_listings)` stands outside any try:
\* its exception leaves the crawl method
AfterStoreError == "raised"

\* store_listings is over: the list is returned, or the exception leaves
\* the crawl method
StoreListingsDone(ok) ==
    /\ cpc = "store"
    /\ cpc' = IF ok THEN "returned" ELSE AfterStoreError
    /\ crawl_result' = IF cpc' = "returned" THEN Some(all_listings) ELSE None
    /\ store_results' = Append(store_results, IF ok THEN "ok" ELSE "error")
    /\ UNCHANGED <<mode, pages, page, all_listings, cwake, store_calls, fetched>>
    /\ UNCHANGED <<now, clientVars, httpVars, ncalls, maVars, pollCfg, pollVars>>

InitCrawlService ==
    /\ now = 0
    /\ \E retries \in 1..2 : InitClient(retries, <<1, 2>>)
    /\ InitAverage(1)
    /\ InitPoller(1, 1)
    /\ InitCrawl

NextCrawl ==
    \/ \E m \in {"json", "html"} : \E n \in 0..MaxPages : StartCrawl(m, n)
    \/ CrawlLoop
    \/ RateLimitWake("crawler")
    \/ \E r \in JsonReplies(ListingBodies) : Reply("crawler", r)
    \/ BackoffWake("crawler")
    \/ CrawlFetchDone
    \/ \E r \in Replies(ListingBodies) : HtmlReply(r)
    \/ CrawlWake
    \/ \E ok \in BOOLEAN : StoreListingsDone(ok)
    \/ Tick

SpecCrawl == InitCrawlService /\ [][NextCrawl]_vars

\* the records of the pages that came through, in the order of the pages
RECURSIVE RecordsOf(_)
RecordsOf(f) ==
    IF f = << >> THEN << >>
    ELSE RecordsOf(SubSeq(f, 1, Len(f) - 1))
            \o (IF f[Len(f)].ok
                THEN ListingsOf(mode, f[Len(f)].page, f[Len(f)].body) ELSE << >>)

CrawlOver == cpc \in {"store", "returned", "raised"}

\* C7: whichever pages fail, the crawl tries every page 1..N in ascending
\* order and is not aborted; the accumulated list is always the records of
\* the pages that came through so far, in page order; store_listings is
\* called once, after the last page, with exactly that list (the empty list
\* when every page failed), and that list is what the crawl returns.
PageFaultTolerance ==
    /\ all_listings = RecordsOf(fetched)
    /\ \A i \in 1..Len(fetched) : fetched[i].page = i
    /\ Len(fetched) <= pages
    /\ ~CrawlOver => store_calls = << >>
    /\ CrawlOver =>
         /\ Len(fetched) = pages
         /\ store_calls = <<RecordsOf(fetched)>>
    /\ cpc = "returned" => crawl_result = Some(RecordsOf(fetched))

\* three pages, the middle one failed, the others brought records
PageFaultToleranceWitness ==
    /\ cpc = "returned"
    /\ pages = 3
    /\ fetched[1].ok /\ ~fetched[2].ok /\ fetched[3].ok
    /\ Len(ListingsOf(mode, 1, fetched[1].body)) >= 1
    /\ Len(ListingsOf(mode, 3, fetched[3].body)) >= 1
    /\ Len(crawl_result[1]) >= 2

\* C13: the crawl is suspended for the page delay only between two pages,
\* never once the last page, page N, has been fetched.
DelayOnlyBetweenPages == cpc = "page_sleep" => page < pages

\* C15: in both modes every page goes through HttpClient.get, so by the time
\* a page has been dealt with the rate limiter has recorded an instant for it.
PagesThroughGet == Len(fetched) <= Len(stamps)

\* C25: an exception of store_listings leaves the crawl method: the crawl
\* ends raised and returns no batch, although pages came through, and
\* store_listings is not called again; it is called at most once per crawl.
\* Nothing else makes a crawl raise, and a store that went through returns
\* the batch that was stored.
StorageFailurePropagates ==
    /\ Len(store_calls) <= 1
    /\ Len(store_results) <= Len(store_calls)
    /\ store_results = <<"error">> =>
          /\ cpc = "raised"
          /\ crawl_result = None
          /\ Len(store_calls) = 1
    /\ cpc = "raised" => store_results = <<"error">>
    /\ store_results = <<"ok">> =>
          /\ cpc = "returned"
          /\ crawl_result = Some(store_calls[1])

\* two pages came through with records, then store_listings failed
StorageFailurePropagatesWitness ==
    /\ cpc = "raised"
    /\ pages = 2
    /\ store_results = <<"error">>
    /\ Len(store_calls[1]) = 2
    /\ crawl_result = None

\* A crawl called with any page count, zero and a negative one included.
NextPages ==
    \/ \E m \in {"json", "html"} : \E n \in (0 - 1)..MaxPages : StartCrawl(m, n)
    \/ CrawlLoop
    \/ RateLimitWake("crawler")
    \/ \E r \in JsonReplies(ListingBodies) : Reply("crawler", r)
    \/ BackoffWake("crawler")
    \/ CrawlFetchDone
    \/ \E r \in Replies(ListingBodies) : HtmlReply(r)
    \/ CrawlWake
    \/ \E ok \in BOOLEAN : StoreListingsDone(ok)
    \/ Tick

SpecPages == InitCrawlService /\ [][NextPages]_vars

\* the pages the crawl has asked its provider for so far, in order: those
\* dealt with and the one under way
Requested ==
    [i \in 1..Len(fetched) |-> fetched[i].page]
        \o (IF cpc \in {"fetch", "html_request"} THEN <<page>> ELSE << >>)

\* C29: a crawl over N pages asks for the pages 1, 2, ... in ascending order,
\* each once, whether or not earlier pages failed, and never beyond page N;
\* store_listings is called only once the attempt on page N is over, and
\* then exactly once.  With N <= 0 no page is asked for, no request is made
\* at all, and store_listings is still called once, with the empty batch.
PagesInOrder ==
    LET N == IF pages > 0 THEN pages ELSE 0 IN
    /\ \A i \in 1..Len(Requested) : Requested[i] = i
    /\ Len(Requested) <= N
    /\ store_calls # << >> =>
          /\ Len(fetched) = N
          /\ Requested = [i \in 1..N |-> i]
    /\ CrawlOver <=> Len(store_calls) = 1
    /\ Len(store_calls) <= 1
    /\ (cpc # "idle" /\ pages <= 0) =>
          /\ Requested = << >>
          /\ stamps = << >>
          /\ session = "none"
          /\ cpc \in {"loop", "store", "returned", "raised"}
          /\ CrawlOver => store_calls = << << >> >>

\* a crawl over -1 pages stored the empty batch and returned it
PagesInOrderWitness ==
    /\ pages = 0 - 1
    /\ cpc = "returned"
    /\ fetched = << >>
    /\ store_calls = << << >> >>
    /\ crawl_result = Some(<< >>)

(***************************************************************************)
(* get_listings on one page of the JSON API whose items come in every      *)
(* shape: with all six fields ("full"), with the four essential ones only  *)
(* ("bare"), or with one of the four missing.                              *)
(***************************************************************************)
AllShapes == Shapes \cup {"bare", "no_rank", "no_name", "no_symbol"}

RichBodies == UNION {[1..n -> AllShapes] : n \in 0..MaxRows}

NextListings ==
    \/ StartCrawl("json", 1)
    \/ CrawlLoop
    \/ \E body \in RichBodies :
          Reply("crawler", [exc |-> "none", status |-> 200, body |-> body])
    \/ CrawlFetchDone
    \/ CrawlWake
    \/ StoreListingsDone(TRUE)

SpecListings == InitCrawlService /\ [][NextListings]_vars

\* the records a page must give, from its i-th item on: one for each item
\* that has rank, name, symbol and price, in the order of the items
RECURSIVE ExpectedFrom(_, _)
ExpectedFrom(body, i) ==
    IF i > Len(body) THEN << >>
    ELSE (IF body[i] \in {"full", "bare"}
          THEN <<[rank |-> i, name |-> "coin", symbol |-> "SYM", price |-> 1,
                  change_24h |-> IF body[i] = "full" THEN 3 ELSE 0,
                  market_cap |-> IF body[i] = "full" THEN 9 ELSE 0]>>
          ELSE << >>)
         \o ExpectedFrom(body, i + 1)

\* C24: the records get_listings returns for a page are those of the items
\* that have rank, name, symbol and price, all four set in the record; an
\* item that lacks one of the four is left out and the page still comes
\* through with the other items, in their order; change_24h and market_cap
\* are 0 in the record when the item does not have them.
ListingRecordValidity ==
    /\ \A k \in 1..Len(fetched) :
          /\ fetched[k].ok
          /\ all_listings = ExpectedFrom(fetched[k].body, 1)
    /\ \A k \in 1..Len(all_listings) :
          /\ DOMAIN all_listings[k] =
                {"rank", "name", "symbol", "price", "change_24h", "market_cap"}
          /\ all_listings[k].rank \in 1..MaxRows
          /\ all_listings[k].price \in Prices
          /\ all_listings[k].change_24h \in {0, 3}
          /\ all_listings[k].market_cap \in {0, 9}
    /\ cpc = "returned" => crawl_result = Some(all_listings)

\* a page of three items, the second without a symbol: the first (without
\* change and market cap) and the third are the page's records
ListingRecordValidityWitness ==
    /\ cpc = "returned"
    /\ fetched[1].body = <<"bare", "no_symbol", "full">>
    /\ Len(crawl_result[1]) = 2
    /\ crawl_result[1][1].market_cap = 0
    /\ crawl_result[1][2].rank = 3

(***************************************************************************)
(* Direct callers of HttpClient.get.  A caller awaits one get() at a time  *)
(* and calls again once it has the result; callers that share the client  *)
(* interleave at the awaits of their calls.                                *)
(***************************************************************************)
CallerGet(t) ==
    /\ ncalls < MaxCalls
    /\ ncalls' = ncalls + 1
    /\ GetCall(t)
    /\ UNCHANGED <<now, clientVars, maVars, pollCfg, pollVars, crawlVars>>

\* the caller takes the payload or the exception of its get()
CallerDone(t) ==
    /\ GetDone(t)
    /\ call' = [call EXCEPT ![t] = IdleCall]
    /\ trace' = [trace EXCEPT ![t] = << >>]
    /\ UNCHANGED <<last_request_time, session, stamps, aroundGet>>

InitHttp ==
    /\ now = 0
    /\ \E retries \in (0 - 1)..MaxRetries : \E rps \in RpsValues : InitClient(retries, rps)
    /\ InitAverage(1)
    /\ InitPoller(1, 1)
    /\ InitCrawl

\* one task, its get() calls one after another
NextHttp ==
    \/ \E t \in Solo : CallerGet(t)
    \/ \E t \in Solo : RateLimitWake(t)
    \/ \E t \in Solo : \E r \in JsonReplies(PriceBodies) : Reply(t, r)
    \/ \E t \in Solo : BackoffWake(t)
    \/ \E t \in Solo : CallerDone(t)
    \/ Tick

SpecHttp == InitHttp /\ [][NextHttp]_vars

\* two tasks on the same client
NextShared ==
    \/ \E t \in Callers : CallerGet(t)
    \/ \E t \in Callers : RateLimitWake(t)
    \/ \E t \in Callers : \E r \in Replies({None}) : Reply(t, r)
    \/ \E t \in Callers : BackoffWake(t)
    \/ \E t \in Callers : CallerDone(t)
    \/ Tick

SpecShared == InitHttp /\ [][NextShared]_vars

(***************************************************************************)
(* Reading a get() call's trace.                                           *)
(***************************************************************************)
IsLoopEvent(e) == e.ev \in {"send", "reply", "sleep"}
LoopTrace(t) == SelectSeq(trace[t], IsLoopEvent)

IsReply(e) == e.ev = "reply"
RepliesOf(t) == SelectSeq(trace[t], IsReply)

IsPrefix(p, q) == Len(p) <= Len(q) /\ \A i \in 1..Len(p) : p[i] = q[i]

\* k attempts that each get status 500, with the sleeps 1, 2, 4, ... between
\* them and none after the last
RECURSIVE AllFailing(_, _)
AllFailing(a, k) ==
    IF a >= k THEN << >>
    ELSE <<Ev("send", a), Ev("reply", 500)>>
            \o (IF a < k - 1 THEN <<Ev("sleep", Pow2(a))>> ELSE << >>)
            \o AllFailing(a + 1, k)

OnlyServerErrors(t) ==
    /\ RepliesOf(t) # << >>
    /\ \A i \in 1..Len(RepliesOf(t)) : RepliesOf(t)[i].arg >= 500

\* C3: with max_retries = k >= 1 and status >= 500 on every attempt, a get()
\* makes the k attempts in order, sleeps 2^a after failed attempt a for
\* a = 0..k-2 and not after the last, never sends a (k+1)-th request, and ends
\* by raising the exhausted-retries ClientError.
RetryCeiling ==
    \A t \in Tasks :
        (max_retries >= 1 /\ OnlyServerErrors(t)) =>
            /\ IsPrefix(LoopTrace(t), AllFailing(0, max_retries))
            /\ GetDone(t) =>
                 /\ LoopTrace(t) = AllFailing(0, max_retries)
                 /\ call[t].pc = "raised"
                 /\ call[t].kind = "ClientError"
                 /\ call[t].detail = "Server error after attempts"
            /\ Len(RepliesOf(t)) = max_retries => GetDone(t)

RetryCeilingWitness ==
    /\ max_retries = MaxRetries
    /\ OnlyServerErrors("a")
    /\ call["a"].pc = "raised"
    /\ Len(RepliesOf("a")) = MaxRetries

\* C4: a status in [400, 500) on any attempt ends the get() at once: the reply
\* is the last thing the call did (no sleep, no further request) and the call
\* has raised ClientResponseError; a 404 on the first attempt is one attempt.
ClientErrorNotRetried ==
    \A t \in Tasks : \A i \in 1..Len(LoopTrace(t)) :
        LET e == LoopTrace(t)[i] IN
        (e.ev = "reply" /\ e.arg >= 400 /\ e.arg < 500) =>
            /\ i = Len(LoopTrace(t))
            /\ call[t].pc = "raised"
            /\ call[t].kind = "ClientResponseError"
            /\ Len(RepliesOf(t)) = call[t].attempt + 1

\* a 404 reached through retries
ClientErrorNotRetriedWitness ==
    /\ Len(RepliesOf("a")) = 2
    /\ RepliesOf("a")[2].arg = 404
    /\ max_retries = MaxRetries
    /\ call["a"].pc = "raised"

IsSend(e) == e.ev = "send"
IsStamp(e) == e.ev = "stamp"

\* a reply that is a failure of the transient kind: a network or timeout
\* exception (logged with status 0) or a status >= 500
IsTransient(e) == e.ev = "reply" /\ (e.arg = 0 \/ e.arg >= 500)

OnlyTransient(t) ==
    /\ RepliesOf(t) # << >>
    /\ \A i \in 1..Len(RepliesOf(t)) : IsTransient(RepliesOf(t)[i])

\* the loop trace with every transient reply written as a 500
AsServerErrors(tr) ==
    [i \in 1..Len(tr) |-> IF IsTransient(tr[i]) THEN Ev("reply", 500) ELSE tr[i]]

\* C19: with max_retries = k >= 1 and each attempt ending in a network or
\* timeout exception or in a status >= 500, in any mix, a get() goes the way
\* of C3: k attempts, the sleep 2^a after failed attempt a < k-1, none after
\* the last; it ends raised with the last attempt's failure (the exception
\* itself, or the ClientError made for the 5xx), never with the
\* ClientResponseError of a 4xx and never with a payload.
NetworkErrorsRetried ==
    \A t \in Tasks :
        (max_retries >= 1 /\ OnlyTransient(t)) =>
            LET last == RepliesOf(t)[Len(RepliesOf(t))] IN
            /\ IsPrefix(AsServerErrors(LoopTrace(t)), AllFailing(0, max_retries))
            /\ Len(RepliesOf(t)) = max_retries <=> GetDone(t)
            /\ GetDone(t) =>
                 /\ AsServerErrors(LoopTrace(t)) = AllFailing(0, max_retries)
                 /\ call[t].pc = "raised"
                 /\ call[t].body = None
                 /\ call[t].kind \in {"ClientError", "TimeoutError"}
                 /\ call[t].detail = IF last.arg = 0 THEN "Request failed after attempts"
                                     ELSE "Server error after attempts"

\* a timeout, a 500 and a timeout again: the call raised the TimeoutError
NetworkErrorsRetriedWitness ==
    /\ max_retries = 3
    /\ Len(RepliesOf("a")) = 3
    /\ RepliesOf("a")[1].arg = 0
    /\ RepliesOf("a")[2].arg = 500
    /\ RepliesOf("a")[3].arg = 0
    /\ call["a"].pc = "raised"
    /\ call["a"].kind = "TimeoutError"

IsPayload(e) == e.ev = "payload"
IsUnparsed(e) == e.ev = "unparsed"

\* C20: a get() has no result while it runs and exactly one once it is
\* over: a payload (and then no error) or an error (and then no payload).
\* It returns exactly when an attempt gets a status below 400 with a body
\* that is JSON: that attempt, the (j+1)-th, comes after j transient
\* failures and is the last thing the call did, the payload returned is the
\* one of that response, and nothing of the failures before is in the
\* result.  A body that is no JSON ends the call too, with the one error
\* response.json() raised and no further attempt.
OneOutcome ==
    \A t \in Tasks :
        LET rs == RepliesOf(t)
            lt == LoopTrace(t)
            parsed == SelectSeq(trace[t], IsUnparsed) = << >>
            good == rs # << >> /\ rs[Len(rs)].arg >= 1 /\ rs[Len(rs)].arg < 400
        IN
        /\ call[t].pc = "returned" <=> (good /\ parsed)
        /\ (good /\ ~parsed) =>
              /\ call[t].pc = "raised"
              /\ call[t].kind \in JsonErrors
              /\ Len(rs) = call[t].attempt + 1
              /\ Len(SelectSeq(trace[t], IsSend)) = Len(rs)
        /\ call[t].pc = "returned" =>
              /\ call[t].kind = "payload"
              /\ call[t].detail = "none"
              /\ Len(rs) = call[t].attempt + 1
              /\ call[t].attempt < max_retries
              /\ \A i \in 1..(Len(rs) - 1) : IsTransient(rs[i])
              /\ Len(SelectSeq(trace[t], IsSend)) = Len(rs)
              /\ lt[Len(lt)] = rs[Len(rs)]
              /\ Len(SelectSeq(trace[t], IsPayload)) = 1
              /\ trace[t][Len(trace[t])] = Ev("payload", PayloadCode(call[t].body))
        /\ call[t].pc = "raised" =>
              /\ call[t].kind \in {"ClientError", "ClientResponseError", "TimeoutError"}
                                    \cup JsonErrors
              /\ call[t].body = None
              /\ SelectSeq(trace[t], IsPayload) = << >>
        /\ call[t].pc \notin {"returned", "raised"} =>
              /\ call[t].kind = "none"
              /\ call[t].body = None
              /\ SelectSeq(trace[t], IsPayload) = << >>

\* the third attempt came through after a 500 and a network failure
OneOutcomeWitness ==
    /\ max_retries = 3
    /\ call["a"].pc = "returned"
    /\ call["a"].attempt = 2
    /\ call["a"].body = Some(2)
    /\ RepliesOf("a")[1].arg = 500
    /\ RepliesOf("a")[2].arg = 0

\* C14: every request sent, the retries of a get() included, comes after a
\* pass of its own through the rate limiter: a call never has sent more
\* requests than it has recorded instants in last_request_time (stated for a
\* client whose rate limiter is on, min_interval > 0).
EverySendRateLimited ==
    min_interval > 0 =>
        \A t \in Tasks :
            Len(SelectSeq(trace[t], IsSend)) <= Len(SelectSeq(trace[t], IsStamp))

\* consecutive instants recorded by the rate limiter are min_interval apart
Spaced == \A i \in 2..Len(stamps) : stamps[i] - stamps[i - 1] >= min_interval

\* C5: when the get() calls come one after another, any two consecutive
\* instants recorded by the rate limiter differ by at least min_interval, so
\* the third call's instant is at least 2 * min_interval after the first's.
SequentialSpacing ==
    /\ Spaced
    /\ Len(stamps) >= 3 => stamps[3] - stamps[1] >= 2 * min_interval

SequentialSpacingWitness ==
    /\ min_interval = 2
    /\ Len(stamps) = 3
    /\ stamps[3] - stamps[1] = 4

\* C6: tasks that share the client and interleave at their awaits still pass
\* the rate limiter at least min_interval apart (stated for a client that
\* sends requests at all, max_retries >= 1).
SharedSpacing == max_retries >= 1 => Spaced

\* C21: the raise after the retry loop ("Max retries exceeded") is reached
\* exactly by the calls of a client with max_retries <= 0: such a call still
\* passes the rate limiter once, sends no request and ends with that
\* ClientError; with max_retries >= 1 every call ends inside the loop, on the
\* reply to an attempt.
ZeroRetryEdge ==
    \A t \in Tasks :
        LET lt == LoopTrace(t) IN
        /\ (call[t].pc = "raised" /\ call[t].detail = "Max retries exceeded")
              <=> (GetDone(t) /\ max_retries <= 0)
        /\ max_retries <= 0 =>
              /\ call[t].pc \in {"idle", "rate_limit", "raised"}
              /\ lt = << >>
              /\ GetDone(t) =>
                    /\ call[t].kind = "ClientError"
                    /\ call[t].body = None
                    /\ Len(SelectSeq(trace[t], IsStamp)) = 1
                    /\ trace[t][Len(trace[t])] = Ev("stamp", 0)
        /\ (max_retries >= 1 /\ GetDone(t)) =>
              /\ lt # << >>
              /\ lt[Len(lt)].ev = "reply"
              /\ Len(RepliesOf(t)) = call[t].attempt + 1
              /\ call[t].attempt < max_retries
              /\ call[t].detail \in {"none", "raised again", "not caught", "Client error",
                                     "Request failed after attempts",
                                     "Server error after attempts"}

\* a call of a client with no attempts waited for the rate limiter and failed
ZeroRetryEdgeWitness ==
    /\ max_retries = 0
    /\ call["a"].pc = "raised"
    /\ call["a"].detail = "Max retries exceeded"
    /\ trace["a"] = <<Ev("wait", 1), Ev("stamp", 0)>>

\* the time _rate_limit has to sleep at this instant: 0 for no sleep
DueSleep ==
    IF last_request_time = None \/ requests_per_second[1] <= 0
    THEN 0
    ELSE IF now - last_request_time[1] < min_interval
         THEN min_interval - (now - last_request_time[1])
         ELSE 0

\* C22: min_interval is 1 / requests_per_second, or 0 when
\* requests_per_second <= 0.  A pass through the rate limiter sleeps exactly
\* min_interval - elapsed when an earlier instant is recorded and elapsed is
\* below min_interval, and does not sleep otherwise (never on the first call,
\* never with min_interval = 0); slept or not, it ends by setting
\* last_request_time to the instant at which it ends, and nothing else
\* changes last_request_time.
RateLimiterWait ==
    /\ [](IF requests_per_second[1] <= 0
          THEN min_interval = 0
          ELSE min_interval * requests_per_second[1] = requests_per_second[2])
    /\ [][/\ \A t \in Tasks :
              /\ (call[t].pc = "idle" /\ call'[t].pc # "idle") =>
                    IF DueSleep > 0
                    THEN /\ call'[t].pc = "rate_limit"
                         /\ call'[t].wake = now + DueSleep
                         /\ last_request_time' = last_request_time
                    ELSE /\ call'[t].pc # "rate_limit"
                         /\ last_request_time' = Some(now)
              /\ (call[t].pc = "rate_limit" /\ call'[t].pc # "rate_limit") =>
                    /\ now >= call[t].wake
                    /\ last_request_time' = Some(now)
          /\ last_request_time' # last_request_time =>
                \E t \in Tasks : /\ call[t].pc \in {"idle", "rate_limit"}
                                 /\ call'[t].pc \notin {"idle", "rate_limit"}]_vars

\* the second call came one unit after the first, slept the other unit of
\* the interval of two, and recorded the instant at which it woke
RateLimiterWaitWitness ==
    /\ min_interval = 2
    /\ call["a"].pc = "request"
    /\ trace["a"][1] = Ev("wait", 1)
    /\ Len(stamps) = 2
    /\ stamps[2] = stamps[1] + 2
    /\ last_request_time = Some(now)

(***************************************************************************)
(* A MovingAverage used on its own: any window size, any values.           *)
(***************************************************************************)
InitMA ==
    /\ now = 0
    /\ InitClient(1, <<1, 1>>)
    /\ \E n \in 0..MaxWindow : InitAverage(n)
    /\ InitPoller(1, 1)
    /\ InitCrawl

AddAny ==
    /\ Len(added) < MaxAdds
    /\ \E v \in Prices : AddValue(v)
    /\ UNCHANGED <<now, clientVars, httpVars, ncalls, pollCfg, pollVars, crawlVars>>

NextMA == AddAny

SpecMA == InitMA /\ [][NextMA]_vars

Min(a, b) == IF a <= b THEN a ELSE b

\* added[lo] + ... + added[hi]
RECURSIVE SumRange(_, _)
SumRange(lo, hi) == IF lo > hi THEN 0 ELSE added[hi] + SumRange(lo, hi - 1)

\* the number of values a window of size window_size holds after the adds
Held == Min(Len(added), window_size)

\* C8: with capacity n >= 1, after the adds v1..vm the window is the last
\* min(m, n) values in insertion order, get_average() is their arithmetic
\* mean, and from the n-th add on (so after n+1 adds, when the window is
\* v2..v(n+1)) is_ready() is true.
SlidingWindowMean ==
    window_size >= 1 =>
        LET m == Len(added) IN
        /\ values = SubSeq(added, m - Held + 1, m)
        /\ m >= 1 =>
             /\ GetAverage(values) # None
             /\ GetAverage(values)[1].num = SumRange(m - Held + 1, m)
             /\ GetAverage(values)[1].den = Held
        /\ m = window_size + 1 =>
             /\ IsReady(values)
             /\ values = Tail(added)
             /\ GetAverage(values)[1].num * window_size
                    = SumRange(2, window_size + 1) * GetAverage(values)[1].den

SlidingWindowMeanWitness ==
    /\ window_size >= 2
    /\ Len(added) = window_size + 1
    /\ added[1] # added[2]
    /\ values = Tail(added)

\* C9: after any sequence of add_value calls, len(values) <= window_size.
WindowBound == Len(values) <= window_size

WindowBoundWitness ==
    /\ window_size >= 1
    /\ Len(added) > window_size + 1
    /\ Len(values) = window_size

\* C10: get_average() has a value exactly when the window is not empty,
\* is_ready() is true exactly when as many values were added as the window
\* holds, and so with 1 <= count < capacity the average is there although
\* is_ready() is false.
AverageAvailable ==
    /\ GetAverage(values) = None <=> Len(values) = 0
    /\ IsReady(values) <=> Len(added) >= window_size
    /\ (1 <= Len(values) /\ Len(values) < window_size) =>
           /\ GetAverage(values) # None
           /\ ~IsReady(values)

AverageAvailableWitness ==
    /\ Len(values) = 1
    /\ window_size = MaxWindow
    /\ GetAverage(values) # None
    /\ ~IsReady(values)

\* C30: with window_size = n >= 1, a window that is ready holds exactly n
\* values, and add_value on it evicts exactly one value, the oldest, and
\* appends the new one: the window is ready again, with n values.
ReadinessStable ==
    /\ []((window_size >= 1 /\ IsReady(values)) => Len(values) = window_size)
    /\ [][(window_size >= 1 /\ IsReady(values)) =>
            /\ IsReady(values')
            /\ Len(values') = window_size
            /\ Len(added') = Len(added) + 1
            /\ values' = Tail(values) \o <<added'[Len(added')]>>]_vars

\* a window of two, ready since the second add, after two more adds
ReadinessStableWitness ==
    /\ window_size = 2
    /\ Len(added) = 4
    /\ IsReady(values)
    /\ values = <<added[3], added[4]>>

(***************************************************************************)
(* Termination.  A service used for one thing: one run of the poller       *)
(* against an upstream that never delivers a price (every answer is an     *)
(* error status, a network failure, a body that is no JSON or a payload    *)
(* without a price), or one crawl against an upstream that answers the     *)
(* same, or an empty page.  The event loop runs a task that is ready, every session.get  *)
(* ends (the session has a total timeout), store_listings ends, and the    *)
(* clock runs to the end of the sleep a task is in.                        *)
(***************************************************************************)
InitTerm ==
    /\ now = 0
    /\ \E retries \in 1..MaxRetries : InitClient(retries, <<1, 2>>)
    /\ InitAverage(1)
    /\ \E threshold \in 0..MaxThreshold : InitPoller(threshold, 1)
    /\ InitCrawl

StartOnlyPoller == cpc = "idle" /\ FirstStart

StartOnlyCrawl ==
    /\ ppc = "idle"
    /\ \E m \in {"json", "html"} : \E n \in 0..MaxCrawled : StartCrawl(m, n)

\* the steps of the task that is running
TaskStep ==
    \/ LoopTop
    \/ \E t \in {"poller", "crawler"} : RateLimitWake(t)
    \/ \E t \in {"poller", "crawler"} : \E r \in JsonReplies({None}) : Reply(t, r)
    \/ \E t \in {"poller", "crawler"} : BackoffWake(t)
    \/ FetchDone
    \/ PollerWake
    \/ CloseDone
    \/ CrawlLoop
    \/ CrawlFetchDone
    \/ \E r \in Replies({None}) : HtmlReply(r)
    \/ CrawlWake
    \/ \E ok \in BOOLEAN : StoreListingsDone(ok)

\* the instants at which a sleep under way is over
PendingWakes ==
    {call[t].wake : t \in {u \in Tasks : call[u].pc \in {"rate_limit", "backoff"}}}
        \cup (IF ppc \in {"poll_sleep", "backoff_sleep"} THEN {pwake} ELSE {})
        \cup (IF cpc = "page_sleep" THEN {cwake} ELSE {})

\* time passes until the first of the sleeps under way is over
TimePasses ==
    /\ \E w \in PendingWakes :
          /\ w > now
          /\ \A v \in PendingWakes : w <= v
          /\ now' = w
    /\ UNCHANGED <<clientVars, httpVars, ncalls, maVars, pollCfg, pollVars, crawlVars>>

NextTerm ==
    \/ StartOnlyPoller
    \/ StartOnlyCrawl
    \/ TaskStep
    \/ TimePasses

SpecTerm ==
    /\ InitTerm
    /\ [][NextTerm]_vars
    /\ WF_vars(TaskStep)
    /\ WF_vars(TimePasses)

IsBackoff(e) == e.ev = "sleep"

\* the sum of the durations in the events s
RECURSIVE TotalOf(_)
TotalOf(s) == IF s = << >> THEN 0 ELSE s[1].arg + TotalOf(Tail(s))

\* what holds of every get() at every instant: no more than max_retries
\* requests sent, no more than 2^(max_retries - 1) - 1 slept between them
GetBounded ==
    \A t \in Tasks :
        /\ Len(SelectSeq(trace[t], IsSend)) <= max_retries
        /\ TotalOf(SelectSeq(trace[t], IsBackoff)) <= Pow2(max_retries - 1) - 1

\* every get() under way ends, and every crawl under way gets to its one
\* call of store_listings
GetsAndCrawlsEnd ==
    /\ \A t \in {"poller", "crawler"} : (call[t].pc # "idle") ~> GetDone(t)
    /\ (cpc # "idle") ~> (Len(store_calls) = 1)
    /\ [](Len(store_calls) <= 1)
    /\ []((cpc # "idle" /\ Len(store_calls) = 1) => Len(fetched) = pages)

\* the run has returned, stopped by the failure limit after n cycles, all
\* of them failed
StoppedAfter(n) ==
    /\ ppc = "returned"
    /\ ~running
    /\ LastEvent(plog) = "stop"
    /\ Len(Outcomes) = n
    /\ TrailingFails(Outcomes) = n

\* C28 as amended: with max_retries >= 1 every get() ends, having sent at
\* most max_retries requests and slept at most 2^(max_retries - 1) - 1
\* between them, whatever the outcomes of the attempts.  So a poller started
\* on a fresh service whose upstream fails forever stops by the failure
\* limit T after exactly T cycles when T >= 1, and after exactly one cycle
\* when T <= 0; and a crawl over N pages always gets to its one call of
\* store_listings, after the N pages.
Termination ==
    LET n == IF max_consecutive_failures >= 1 THEN max_consecutive_failures ELSE 1 IN
    /\ []GetBounded
    /\ GetsAndCrawlsEnd
    /\ (ppc # "idle") ~> StoppedAfter(n)
    /\ [](ppc = "returned" => StoppedAfter(n))

\* limit two, three attempts per get(): the poller has stopped after two
\* cycles of three requests each, well after the clock's MaxTime
TerminationWitness ==
    /\ max_retries = 3
    /\ max_consecutive_failures = 2
    /\ StoppedAfter(2)
    /\ Len(stamps) = 2
    /\ now > MaxTime

\* C28 as first stated: the poller whose upstream fails forever stops after
\* exactly max_consecutive_failures cycles, whatever the limit.
TerminationAsStated ==
    /\ []GetBounded
    /\ GetsAndCrawlsEnd
    /\ (ppc # "idle") ~> StoppedAfter(max_consecutive_failures)
    /\ [](ppc = "returned" => StoppedAfter(max_consecutive_failures))

====
